---- MODULE Spec2Model ----
(***************************************************************************)
(* Order -> payment -> entitlement -> download lifecycle of LetsEarn.      *)
(*                                                                         *)
(* Two families of request handlers share one payment gateway account and  *)
(* one document store (both reach it through firebase-admin's default     *)
(* app):                                                                   *)
(*   - the Express app (unnamed/part_000, lines 478-694): collections      *)
(*     orders and downloadTokens, one-time download tokens;                *)
(*   - the serverless functions (api/*.js, unnamed/part_001..003):         *)
(*     collections entitlements, entitlements_by_email, settings.          *)
(*                                                                         *)
(* Time is counted in hours.  An order id is the sequence of its           *)
(* underscore-separated segments.  HMAC is modelled as an injective        *)
(* pairing of key and body.  Store writes and outbound HTTP calls may      *)
(* fail; store reads are taken to answer.  Document fields no handler      *)
(* reads back (updatedAt, usedAt, provider) are left out.                  *)
(***************************************************************************)
EXTENDS Integers, Sequences, FiniteSets, Bags, TLC

\* ---------------------------------------------------------------- bounds
MaxTime == 2
MaxRandom == 0
MaxOrders == 1
MaxTokens == 2
MaxInflight == 2

\* ------------------------------------------------------ program constants
\* expiresAt: Date.now() + 60 * 60 * 1000 (one hour)
TokenTtlHours == 1

\* ------------------------------------------------------------ input sets
\* "" stands for a missing string field as well: !x holds of both
Absent == ""
GatewaySecret == "whsec"
Emails == {"a@b.com", "C@d.com"}
\* 0 also stands for a missing amount: !amount holds of undefined and of 0 alike
Amounts == {-5, 0, 5}
\* a buyer id, as its underscore-separated segments; <<>> is a missing one
Uids == {<<"u1">>, <<"email", "a@b.com">>}
NoUid == <<>>
\* a phone number, as its characters
Phones == {<<"-">>, <<"9", "-", "9">>}
RandomDraws == 0..MaxRandom
NoOrderId == <<>>
BogusOrderId == <<"le", "forged", "0">>
NoSignature == <<>>
PushStatuses == {"paid", "FAILED"}
\* an email of the admin allow-list, and a string that is no email address
AdminEmail == "admin@x.com"
MalformedEmail == "nobody"
\* A request's Authorization header (or clientPayload) as what it comes to:
\* whether a bearer token is there, whether verifyIdToken accepts it, and
\* the uid and email it decodes to.
NoBearer == [bearer |-> FALSE, valid |-> FALSE, uid |-> NoUid, email |-> Absent]
IdTokens ==
  {NoBearer,
   [bearer |-> TRUE, valid |-> FALSE, uid |-> <<"adm">>, email |-> AdminEmail],
   [bearer |-> TRUE, valid |-> TRUE, uid |-> <<"adm">>, email |-> AdminEmail],
   [bearer |-> TRUE, valid |-> TRUE, uid |-> <<"u1">>, email |-> "a@b.com"],
   [bearer |-> TRUE, valid |-> TRUE, uid |-> <<"anon">>, email |-> Absent]}
\* the JSON body of a gateway refusal (resp.json() when !resp.ok), and the
\* `details` of a response that carries none
GatewayRefusal == "gateway error body"
NoDetail == ""
BlobUrl == "blob://course.zip"
ObjectPath == "courses/current.zip"

VARIABLES
  config,        \* deployment configuration: gateway credentials, webhook secret
  now,           \* Date.now(), in hours
  gateway,       \* the gateway's orders: order id -> [status, email, amount]
  statusQueried, \* order ids the gateway's order-status API has answered for
  orders,        \* collection orders: order id -> document
  tokens,        \* collection downloadTokens: token -> document
  entitlements,  \* collection entitlements: uid -> document
  entByEmail,    \* collection entitlements_by_email: email -> document
  grantedFor,    \* order ids on whose behalf a webhook wrote an entitlement
  redeemed,      \* token -> how many /download calls answered it with a URL
  inflight,      \* bag of the tokens of the /download calls under way
  admins,        \* document config/admins (<<>> while it does not exist)
  settings,      \* document settings/global (<<>> while it does not exist)
  bucket,        \* object paths the storage bucket of the Express app holds
  uploadGrants,  \* the upload URLs and upload tokens handed out, and to whom
  answered,      \* the answers api/download.js has given: [email, code]
  panels         \* open admin panels: uid of the signed-in user -> the
                 \* allow-list the panel loaded (its state `admins`)

vars == <<config, now, gateway, statusQueried, orders, tokens,
          entitlements, entByEmail, grantedFor, redeemed, inflight,
          admins, settings, bucket, uploadGrants, answered, panels>>

\* what the upload and download handlers of the serverless deployment and the
\* admin routes of the Express app touch, beyond the entitlements
delivery == <<admins, settings, bucket, uploadGrants, answered, panels>>

\* what the payment handlers touch
payments == <<now, gateway, statusQueried, orders, tokens, grantedFor,
              redeemed, inflight>>

\* ---------------------------------------------------------------- helpers
NoToken == 0

\* a /download call that is between its token lookup and its write is in
\* the bag inflight, under its token
Started(token) == inflight (+) SetToBag({token})
Finished(token) == inflight (-) SetToBag({token})

\* an HTTP response: status code, the body's message, and the id the body
\* carries (order id or token), if any
Response(code, msg, key) == [code |-> code, msg |-> msg, key |-> key]
Pending == [code |-> 0, msg |-> "pending", key |-> <<>>]

\* doc.field, or dflt when the document has no such field
Field(doc, field, dflt) == IF field \in DOMAIN doc THEN doc[field] ELSE dflt

\* ref.set(patch, { merge: true }) on the document doc (<<>> when absent)
Merged(doc, patch) ==
  [f \in DOMAIN doc \cup DOMAIN patch |->
     IF f \in DOMAIN patch THEN patch[f] ELSE doc[f]]

\* collection.doc(id).set(doc): the collection afterwards
WithDoc(coll, id, doc) ==
  [k \in DOMAIN coll \cup {id} |-> IF k = id THEN doc ELSE coll[k]]

DocOrEmpty(coll, id) == IF id \in DOMAIN coll THEN coll[id] ELSE <<>>

\* crypto.createHmac("sha256", key).update(body).digest("hex")
Hmac(key, body) == <<key, body>>

\* s.toUpperCase() and s.toLowerCase(), on the strings the model sends
ToUpperCase(s) == IF s = "paid" THEN "PAID" ELSE s
ToLowerCase(s) == IF s = "C@d.com" THEN "c@d.com" ELSE s

\* String(x).replace(/[^0-9.]/g, '') and Number(...) of it, on an integer x:
\* the minus sign is not in [0-9.] and is dropped
StripToNumber(x) == IF x < 0 THEN 0 - x ELSE x

\* String(phone).replace(/\D/g, '')
IsDigit(c) == c \in {"0", "1", "2", "3", "4", "5", "6", "7", "8", "9"}
PhoneDigits(phone) == SelectSeq(phone, IsDigit)

\* the client's checks: /[^@\s]+@[^@\s]+\.[^@\s]+/.test(email), on the
\* strings used here, and phoneDigits.length === 10
ValidEmail(email) == email \notin {Absent, MalformedEmail}
ValidPhone(phone) == Len(PhoneDigits(phone)) = 10

\* ---------------------------------------------------------------- gateway
\* POST /pg/orders: the gateway refuses bad credentials, an order id it
\* already holds and a non-positive amount.
GatewayAccepts(creds, orderId, amount) ==
  /\ creds
  /\ orderId \notin DOMAIN gateway
  /\ amount > 0

GatewayRegistered(orderId, email, amount) ==
  WithDoc(gateway, orderId,
          [status |-> "ACTIVE", email |-> email, amount |-> amount])

\* GET /pg/orders/{id}: answered 2xx for an order the gateway holds
GatewayKnows(creds, orderId) == creds /\ orderId \in DOMAIN gateway

\* The buyer pays on the hosted checkout: the gateway marks the order paid.
GatewayPay(o) ==
  /\ o \in DOMAIN gateway
  /\ gateway[o].status = "ACTIVE"
  /\ gateway' = [gateway EXCEPT ![o].status = "PAID"]
  /\ UNCHANGED <<config, now, statusQueried, orders, tokens, entitlements,
                 entByEmail, grantedFor, redeemed, inflight>>
  /\ UNCHANGED delivery

\* An order the merchant account takes outside the create handlers, through
\* the gateway's hosted payment form (settings/global.paymentLink): the
\* gateway holds no customer email for it.
FormOrderId == <<"form", "0">>

GatewayFormOrder ==
  /\ config.credentials
  /\ FormOrderId \notin DOMAIN gateway
  /\ Cardinality(DOMAIN gateway) < MaxOrders
  /\ gateway' = GatewayRegistered(FormOrderId, Absent, 5)
  /\ UNCHANGED <<config, now, statusQueried, orders, tokens, entitlements,
                 entByEmail, grantedFor, redeemed, inflight>>
  /\ UNCHANGED delivery

\* The notifications the gateway has pushed, or may push again (it retries):
\* a failed-payment event for any of its orders, a paid event for a paid one.
\* Each is signed with the webhook secret the gateway holds.
Signed(body) == [body |-> body, sig |-> Hmac(GatewaySecret, body)]

GatewayDeliveries ==
  {Signed([orderId |-> o, status |-> "FAILED"]) : o \in DOMAIN gateway}
  \cup {Signed([orderId |-> o, status |-> "paid"]) :
          o \in {g \in DOMAIN gateway : gateway[g].status = "PAID"}}

\* What any client can post to a webhook endpoint: a body of its choice, with
\* no signature, or with an HMAC under a key it knows (the empty key).
ClientBodies ==
  [orderId : DOMAIN gateway \cup {BogusOrderId, NoOrderId},
   status : PushStatuses]

ClientDeliveries ==
  UNION {{[body |-> b, sig |-> NoSignature],
          [body |-> b, sig |-> Hmac("", b)]} : b \in ClientBodies}

WebhookRequests == GatewayDeliveries \cup ClientDeliveries

\* Deliveries whose payload names a customer email (order.customer_email),
\* which any client can post; only the email-keyed webhook reads that field.
EmailedDeliveries ==
  {[body |-> [orderId |-> o, status |-> "paid", email |-> e],
    sig |-> NoSignature] : o \in DOMAIN gateway, e \in Emails}

Tick ==
  /\ now < MaxTime
  /\ now' = now + 1
  /\ UNCHANGED <<config, gateway, statusQueried, orders, tokens,
                 entitlements, entByEmail, grantedFor, redeemed, inflight>>
  /\ UNCHANGED delivery

\* ------------------------------------------- Express: /payments/create-order
ExpressOrderId(rnd) == <<"le", ToString(now), ToString(rnd)>>

\* what the awaits of a create-order call may do
CreateFaults == {"none", "gateway_throws", "gateway_not_ok", "store_fails"}

\* create-order writing the Order before it calls the gateway: a gateway
\* failure then leaves the record behind.
ExpressCreateOrderRunStoreFirst(email, amount, rnd, fault) ==
  LET orderId == ExpressOrderId(rnd)
      stored == WithDoc(orders, orderId,
                        [email |-> email, orderId |-> orderId,
                         amount |-> amount, status |-> "created"])
  IN
  IF email = Absent \/ amount = 0 \/ ~config.credentials
    THEN [reply |-> Response(400, "missing fields", orderId),
          gateway |-> gateway, orders |-> orders]
  ELSE IF fault # "none" \/ ~GatewayAccepts(config.credentials, orderId, amount)
    THEN [reply |-> Response(500, "failed", orderId),
          gateway |-> gateway, orders |-> stored]
  ELSE [reply |-> Response(200, "ok", orderId),
        gateway |-> GatewayRegistered(orderId, email, amount),
        orders |-> stored]

\* The handler as a function of the request and of what its two awaits do:
\* the response, and the gateway and the orders collection afterwards.
ExpressCreateOrderRun(email, amount, rnd, fault) ==
  LET orderId == ExpressOrderId(rnd)
      creds == config.credentials
      fails(code, msg) == [reply |-> Response(code, msg, orderId),
                           details |-> NoDetail,
                           gateway |-> gateway, orders |-> orders]
  IN
  IF email = Absent \/ amount = 0 THEN fails(400, "missing fields")
  ELSE IF ~creds THEN fails(500, "cashfree not configured")
  ELSE IF fault = "gateway_throws" THEN fails(500, "failed")
  ELSE IF fault = "gateway_not_ok" \/ ~GatewayAccepts(creds, orderId, amount)
    THEN [reply |-> Response(500, "cashfree error", orderId),
          details |-> GatewayRefusal,
          gateway |-> gateway, orders |-> orders]
  ELSE IF fault = "store_fails"
    THEN [reply |-> Response(500, "failed", orderId),
          details |-> NoDetail,
          gateway |-> GatewayRegistered(orderId, email, amount),
          orders |-> orders]
  ELSE [reply |-> Response(200, "ok", orderId),
        details |-> NoDetail,
        gateway |-> GatewayRegistered(orderId, email, amount),
        orders |-> WithDoc(orders, orderId,
                           [email |-> email, orderId |-> orderId,
                            amount |-> amount, status |-> "created"])]

ExpressCreateOrder(email, amount, rnd, fault) ==
  LET run == ExpressCreateOrderRun(email, amount, rnd, fault) IN
  /\ Cardinality(DOMAIN run.gateway) <= MaxOrders
  /\ gateway' = run.gateway
  /\ orders' = run.orders
  /\ UNCHANGED <<config, now, statusQueried, tokens, entitlements,
                 entByEmail, grantedFor, redeemed, inflight>>
  /\ UNCHANGED delivery

\* ------------------------------------------------ Express: /payments/webhook
PaidStatuses == {"SUCCESS", "PAID", "PAYMENT_SUCCESS", "COMPLETED"}

\* what the two store writes of a webhook call may do
WebhookFaults == {"none", "order_write_fails", "token_write_fails"}

\* orderRef.set({ status: "paid" }, { merge: true })
MarkedPaid(orderId) ==
  WithDoc(orders, orderId,
          Merged(DocOrEmpty(orders, orderId), [status |-> "paid"]))

\* uuidv4(): a token no document has yet
FreshToken == Cardinality(DOMAIN tokens) + 1

\* The token document written for an order whose document is doc
IssuedToken(orderId, doc) ==
  [orderId |-> orderId,
   email |-> Field(doc, "email", ""),
   createdAt |-> now,
   expiresAt |-> now + TokenTtlHours,
   used |-> FALSE]

\* The handler as a function of the delivery and of what its writes do: the
\* response, and the orders and downloadTokens collections afterwards.
ExpressWebhookRun(req, fault) ==
  LET orderId == req.body.orderId
      expected == Hmac(config.webhookSecret, req.body)
      ends(code, msg) == [reply |-> Response(code, msg, orderId),
                          orders |-> orders, tokens |-> tokens]
  IN
  IF req.sig = NoSignature THEN ends(400, "missing signature")
  ELSE IF expected # req.sig THEN ends(401, "invalid signature")
  ELSE IF orderId = NoOrderId THEN ends(200, "ok")
  ELSE IF ToUpperCase(req.body.status) \notin PaidStatuses THEN ends(200, "ok")
  ELSE IF fault = "order_write_fails" THEN ends(200, "ok")
  ELSE IF fault = "token_write_fails"
    THEN [reply |-> Response(200, "ok", orderId),
          orders |-> MarkedPaid(orderId), tokens |-> tokens]
  ELSE [reply |-> Response(200, "ok", orderId),
        orders |-> MarkedPaid(orderId),
        tokens |-> WithDoc(tokens, FreshToken,
                           IssuedToken(orderId, MarkedPaid(orderId)[orderId]))]

ExpressWebhook(req, fault) ==
  LET run == ExpressWebhookRun(req, fault) IN
  /\ Cardinality(DOMAIN run.tokens) <= MaxTokens
  /\ orders' = run.orders
  /\ tokens' = run.tokens
  /\ UNCHANGED <<config, now, gateway, statusQueried, entitlements,
                 entByEmail, grantedFor, redeemed, inflight>>
  /\ UNCHANGED delivery

\* ------------------------------------------ Express: /payments/order-status
TokensOf(orderId) == {t \in DOMAIN tokens : tokens[t].orderId = orderId}

\* where("orderId", "==", id).orderBy("createdAt", "desc").limit(1): the
\* documents the query may return
NewestTokens(orderId) ==
  {t \in TokensOf(orderId) :
     \A u \in TokensOf(orderId) : tokens[u].createdAt <= tokens[t].createdAt}

\* /payments/order-status, were it to answer from downloadTokens alone: an
\* order without a token is not found
ExpressOrderStatusRepliesByToken(orderId) ==
  IF orderId = NoOrderId THEN {Response(400, "missing orderId", NoToken)}
  ELSE IF TokensOf(orderId) = {} THEN {Response(200, "not_found", NoToken)}
  ELSE {Response(200, "paid", t) : t \in NewestTokens(orderId)}

\* The responses the handler may give (one, but for createdAt ties): the
\* message is the status, the key the download token.
ExpressOrderStatusReplies(orderId) ==
  IF orderId = NoOrderId THEN {Response(400, "missing orderId", NoToken)}
  ELSE IF orderId \notin DOMAIN orders
    THEN {Response(200, "not_found", NoToken)}
  ELSE IF orders[orderId].status = "paid" /\ TokensOf(orderId) # {}
    THEN {Response(200, orders[orderId].status, t) : t \in NewestTokens(orderId)}
  ELSE {Response(200, orders[orderId].status, NoToken)}

ExpressOrderStatus(orderId) ==
  /\ ExpressOrderStatusReplies(orderId) # {}
  /\ UNCHANGED vars

\* ------------------------------------------------------- Express: /download
\* /download without its expiry check
ExpressDownloadCheckNoExpiry(token) ==
  IF token = NoToken THEN Response(400, "missing token", token)
  ELSE IF token \notin DOMAIN tokens \/ tokens[token].used
    THEN Response(403, "invalid token", token)
  ELSE Pending

\* From the token lookup to the checks that precede getSignedUrl: the
\* response, Pending when the handler goes on.
ExpressDownloadCheck(token) ==
  IF token = NoToken THEN Response(400, "missing token", token)
  ELSE IF token \notin DOMAIN tokens \/ tokens[token].used
    THEN Response(403, "invalid token", token)
  ELSE IF now > tokens[token].expiresAt
    THEN Response(403, "expired token", token)
  ELSE Pending

ExpressDownloadBegin(token) ==
  /\ BagCardinality(inflight) < MaxInflight
  /\ inflight' = IF ExpressDownloadCheck(token) = Pending
                   THEN Started(token)
                   ELSE inflight
  /\ UNCHANGED <<config, now, gateway, statusQueried, orders, tokens,
                 entitlements, entByEmail, grantedFor, redeemed>>
  /\ UNCHANGED delivery

Redemptions(t) == IF t \in DOMAIN redeemed THEN redeemed[t] ELSE 0

\* /download without the write of used: the URL is handed out and the token
\* document stays as it was.
ExpressDownloadRunUnmarked(token, signedUrl, stored) ==
  IF signedUrl /\ stored
    THEN [reply |-> Response(200, "url", token), doc |-> tokens[token]]
    ELSE [reply |-> Response(500, "failed", token), doc |-> tokens[token]]

\* /download, were it to write used before it asks for the signed URL: the
\* token is spent whether or not a URL comes back
ExpressDownloadRunMarksFirst(token, signedUrl, stored) ==
  IF ~stored
    THEN [reply |-> Response(500, "failed", token), doc |-> tokens[token]]
  ELSE IF signedUrl
    THEN [reply |-> Response(200, "url", token),
          doc |-> Merged(tokens[token], [used |-> TRUE])]
    ELSE [reply |-> Response(500, "failed", token),
          doc |-> Merged(tokens[token], [used |-> TRUE])]

\* getSignedUrl, then tokRef.set({ used: true }, merge), then the answer: the
\* response and the token document afterwards.
ExpressDownloadRun(token, signedUrl, stored) ==
  IF signedUrl /\ stored
    THEN [reply |-> Response(200, "url", token),
          doc |-> Merged(tokens[token], [used |-> TRUE])]
    ELSE [reply |-> Response(500, "failed", token), doc |-> tokens[token]]

ExpressDownloadFinish(token, signedUrl, stored) ==
  LET run == ExpressDownloadRun(token, signedUrl, stored) IN
  /\ BagIn(token, inflight)
  /\ tokens' = WithDoc(tokens, token, run.doc)
  /\ redeemed' = IF run.reply.code = 200
                   THEN WithDoc(redeemed, token, Redemptions(token) + 1)
                   ELSE redeemed
  /\ inflight' = Finished(token)
  /\ UNCHANGED <<config, now, gateway, statusQueried, orders, entitlements,
                 entByEmail, grantedFor>>
  /\ UNCHANGED delivery

\* --------------------------------------- serverless: api/create-order.js
CreateOrderJsId(rnd) == <<"order", ToString(now), ToString(rnd)>>

\* The handler as a function of the request and of what its fetch does: the
\* response and the gateway afterwards.  It writes to no collection.
CreateOrderJsRun(uid, email, amountINR, phone, rnd, fault) ==
  LET orderId == CreateOrderJsId(rnd)
      amt == StripToNumber(amountINR)
      fails(code, msg) == [reply |-> Response(code, msg, orderId),
                           detail |-> NoDetail, gateway |-> gateway]
  IN
  IF uid = NoUid \/ email = Absent \/ amountINR = 0
    THEN fails(400, "Missing fields")
  ELSE IF PhoneDigits(phone) = <<>> THEN fails(400, "Missing phone")
  ELSE IF amt <= 0 THEN fails(400, "invalid_amount")
  ELSE IF ~config.credentials THEN fails(500, "cashfree_env_missing")
  ELSE IF fault = "gateway_throws" THEN fails(500, "server_error")
  ELSE IF fault = "gateway_not_ok"
          \/ ~GatewayAccepts(config.credentials, orderId, amt)
    THEN [reply |-> Response(400, "Cashfree order create failed", orderId),
          detail |-> GatewayRefusal, gateway |-> gateway]
  ELSE [reply |-> Response(200, "ok", orderId), detail |-> NoDetail,
        gateway |-> GatewayRegistered(orderId, email, amt)]

CreateOrderJs(uid, email, amountINR, phone, rnd, fault) ==
  LET run == CreateOrderJsRun(uid, email, amountINR, phone, rnd, fault) IN
  /\ Cardinality(DOMAIN run.gateway) <= MaxOrders
  /\ gateway' = run.gateway
  /\ UNCHANGED <<config, now, statusQueried, orders, tokens, entitlements,
                 entByEmail, grantedFor, redeemed, inflight>>
  /\ UNCHANGED delivery

\* ------------------------------- serverless: create-order keyed by buyer id
\* `order_${uid}_${Date.now()}`
CreateOrderUidId(uid) == <<"order">> \o uid \o <<ToString(now)>>

CreateOrderUidRun(uid, email, amountINR, fault) ==
  LET orderId == CreateOrderUidId(uid)
      fails(code, msg) == [reply |-> Response(code, msg, orderId),
                           detail |-> NoDetail, gateway |-> gateway]
  IN
  IF uid = NoUid \/ email = Absent \/ amountINR = 0
    THEN fails(400, "Missing fields")
  ELSE IF fault = "gateway_throws" THEN fails(500, "server_error")
  ELSE IF fault = "gateway_not_ok"
          \/ ~GatewayAccepts(config.credentials, orderId, amountINR)
    THEN [reply |-> Response(400, "Cashfree order create failed", orderId),
          detail |-> GatewayRefusal, gateway |-> gateway]
  ELSE [reply |-> Response(200, "ok", orderId), detail |-> NoDetail,
        gateway |-> GatewayRegistered(orderId, email, amountINR)]

CreateOrderUid(uid, email, amountINR, fault) ==
  LET run == CreateOrderUidRun(uid, email, amountINR, fault) IN
  /\ Cardinality(DOMAIN run.gateway) <= MaxOrders
  /\ gateway' = run.gateway
  /\ UNCHANGED <<config, now, statusQueried, orders, tokens, entitlements,
                 entByEmail, grantedFor, redeemed, inflight>>
  /\ UNCHANGED delivery

\* ------------------------------------ serverless: api/cashfree-webhook.js
VerifiedPaidStatuses == {"PAID", "SUCCESS", "SUCCESSFUL"}

\* parts.length >= 3 ? parts.slice(1, parts.length - 1).join('_') : null
ParsedUid(orderId) ==
  IF Len(orderId) >= 3 THEN SubSeq(orderId, 2, Len(orderId) - 1) ELSE NoUid

\* the webhook, were it to record every verified status: granted follows
\* the gateway's status, and an order that is not paid writes granted: false
CashfreeWebhookRunRecordsStatus(req, fault) ==
  LET orderId == req.body.orderId
      uid == ParsedUid(orderId)
      ends(code, msg, asked) ==
        [reply |-> Response(code, msg, orderId), queried |-> asked,
         entitlements |-> entitlements, granted |-> FALSE]
  IN
  IF orderId = NoOrderId THEN ends(400, "No order id", FALSE)
  ELSE IF fault = "gateway_throws" THEN ends(500, "server_error", FALSE)
  ELSE IF fault = "gateway_not_ok" \/ ~GatewayKnows(config.credentials, orderId)
    THEN ends(400, "verify_failed", TRUE)
  ELSE IF uid = NoUid THEN ends(400, "Cannot parse uid from order id", TRUE)
  ELSE IF fault = "store_fails" THEN ends(500, "server_error", TRUE)
  ELSE LET paid == ToUpperCase(gateway[orderId].status) \in VerifiedPaidStatuses
       IN [reply |-> Response(200, "ok", orderId), queried |-> TRUE,
           entitlements |-> WithDoc(entitlements, uid,
                                    Merged(DocOrEmpty(entitlements, uid),
                                           [granted |-> paid])),
           granted |-> paid]

\* The handler as a function of the delivery and of what its awaits do: the
\* response, whether the gateway answered the status query, and the
\* entitlements collection afterwards.  The signature header is not read.
CashfreeWebhookRun(req, fault) ==
  LET orderId == req.body.orderId
      uid == ParsedUid(orderId)
      ends(code, msg, asked) ==
        [reply |-> Response(code, msg, orderId), queried |-> asked,
         entitlements |-> entitlements, granted |-> FALSE]
  IN
  IF orderId = NoOrderId THEN ends(400, "No order id", FALSE)
  ELSE IF fault = "gateway_throws" THEN ends(500, "server_error", FALSE)
  ELSE IF fault = "gateway_not_ok" \/ ~GatewayKnows(config.credentials, orderId)
    THEN ends(400, "verify_failed", TRUE)
  ELSE IF ToUpperCase(gateway[orderId].status) \notin VerifiedPaidStatuses
    THEN ends(200, "ignored", TRUE)
  ELSE IF uid = NoUid THEN ends(400, "Cannot parse uid from order id", TRUE)
  ELSE IF fault = "store_fails" THEN ends(500, "server_error", TRUE)
  ELSE [reply |-> Response(200, "ok", orderId), queried |-> TRUE,
        entitlements |-> WithDoc(entitlements, uid,
                                 Merged(DocOrEmpty(entitlements, uid),
                                        [granted |-> TRUE])),
        granted |-> TRUE]

CashfreeWebhook(req, fault) ==
  LET run == CashfreeWebhookRun(req, fault) IN
  /\ entitlements' = run.entitlements
  /\ statusQueried' = IF run.queried
                        THEN statusQueried \cup {req.body.orderId}
                        ELSE statusQueried
  /\ grantedFor' = IF run.granted
                     THEN grantedFor \cup {req.body.orderId}
                     ELSE grantedFor
  /\ UNCHANGED <<config, now, gateway, orders, tokens, entByEmail,
                 redeemed, inflight>>
  /\ UNCHANGED delivery

\* --------------------------------- serverless: webhook keyed by buyer email
CashfreeWebhookEmailRun(req, fault) ==
  LET orderId == req.body.orderId
      ends(code, msg, asked) ==
        [reply |-> Response(code, msg, orderId), queried |-> asked,
         entByEmail |-> entByEmail, granted |-> FALSE]
  IN
  IF orderId = NoOrderId THEN ends(400, "No order id", FALSE)
  ELSE IF fault = "gateway_throws" THEN ends(500, "server_error", FALSE)
  ELSE IF fault = "gateway_not_ok" \/ ~GatewayKnows(config.credentials, orderId)
    THEN ends(400, "verify_failed", TRUE)
  ELSE IF ToUpperCase(gateway[orderId].status) \notin VerifiedPaidStatuses
    THEN ends(200, "ignored", TRUE)
  ELSE LET email == ToLowerCase(IF gateway[orderId].email # Absent
                                  THEN gateway[orderId].email
                                  ELSE Field(req.body, "email", Absent)) IN
    IF email = Absent THEN ends(400, "No customer email on order", TRUE)
    ELSE IF fault = "store_fails" THEN ends(500, "server_error", TRUE)
    ELSE [reply |-> Response(200, "ok", orderId), queried |-> TRUE,
          entByEmail |-> WithDoc(entByEmail, email,
                                 Merged(DocOrEmpty(entByEmail, email),
                                        [email |-> email, granted |-> TRUE])),
          granted |-> TRUE]

CashfreeWebhookEmail(req, fault) ==
  LET run == CashfreeWebhookEmailRun(req, fault) IN
  /\ entByEmail' = run.entByEmail
  /\ statusQueried' = IF run.queried
                        THEN statusQueried \cup {req.body.orderId}
                        ELSE statusQueried
  /\ grantedFor' = IF run.granted
                     THEN grantedFor \cup {req.body.orderId}
                     ELSE grantedFor
  /\ UNCHANGED <<config, now, gateway, orders, tokens, entitlements,
                 redeemed, inflight>>
  /\ UNCHANGED delivery

\* ------------------------------------------- Express: verifyAdmin, upload-url
\* verifyAdmin letting every verified identity through
VerifyAdminRunAnyUser(idToken) ==
  IF ~idToken.bearer THEN Response(401, "missing token", NoUid)
  ELSE IF ~idToken.valid THEN Response(401, "auth failed", NoUid)
  ELSE Pending

\* verifyAdmin: the response it ends the request with, Pending when it calls
\* next().  adminCfg.emails never holds "" (filter(Boolean)).
VerifyAdminRun(idToken) ==
  IF ~idToken.bearer THEN Response(401, "missing token", NoUid)
  ELSE IF ~idToken.valid THEN Response(401, "auth failed", NoUid)
  ELSE IF config.adminEmails = {}
    THEN Response(403, "admin not configured", idToken.uid)
  ELSE IF idToken.email \notin config.adminEmails
    THEN Response(403, "not an admin", idToken.uid)
  ELSE Pending

ExpressUploadUrlRun(idToken, signedUrl) ==
  IF VerifyAdminRun(idToken) # Pending THEN VerifyAdminRun(idToken)
  ELSE IF ~signedUrl THEN Response(500, "failed", idToken.uid)
  ELSE Response(200, "putUrl", idToken.uid)

ExpressUploadUrl(idToken, signedUrl) ==
  /\ uploadGrants' =
       IF ExpressUploadUrlRun(idToken, signedUrl).code = 200
         THEN uploadGrants \cup {[via |-> "upload-url", idToken |-> idToken,
                                  allowed |-> config.adminEmails]}
         ELSE uploadGrants
  /\ UNCHANGED <<config, entitlements, entByEmail, admins, settings, bucket,
                 answered,
                 panels>>
  /\ UNCHANGED payments

\* The holder of a signed write URL puts the deliverable into the bucket.
ExpressPutObject ==
  /\ \E g \in uploadGrants : g.via = "upload-url"
  /\ bucket' = bucket \cup {ObjectPath}
  /\ UNCHANGED <<config, entitlements, entByEmail, admins, settings,
                 uploadGrants, answered,
                 panels>>
  /\ UNCHANGED payments

\* ------------------------------------------- serverless: api/blob-upload.js
\* snap.exists ? (snap.data().allowedEmails || []) : []
AllowedEmails == Field(admins, "allowedEmails", {})

\* handleUpload asked for a client token: onBeforeGenerateToken, whose throw
\* is answered 400 with the error's message.
BlobUploadRun(idToken) ==
  IF ~idToken.bearer THEN Response(400, "Missing auth", NoUid)
  ELSE IF ~idToken.valid THEN Response(400, "upload_failed", NoUid)
  ELSE IF idToken.email = Absent \/ idToken.email \notin AllowedEmails
    THEN Response(400, "Forbidden", idToken.uid)
  ELSE Response(200, "clientToken", idToken.uid)

BlobUpload(idToken) ==
  /\ uploadGrants' =
       IF BlobUploadRun(idToken).code = 200
         THEN uploadGrants \cup {[via |-> "blob-upload", idToken |-> idToken,
                                  allowed |-> AllowedEmails]}
         ELSE uploadGrants
  /\ UNCHANGED <<config, entitlements, entByEmail, admins, settings, bucket,
                 answered,
                 panels>>
  /\ UNCHANGED payments

\* onUploadCompleted, called back once an upload made with a client token is
\* through: settings/global gets the blob's URL.
BlobUploadCompleted ==
  /\ \E g \in uploadGrants : g.via = "blob-upload"
  /\ settings' = Merged(settings, [courseBlobUrl |-> BlobUrl])
  /\ UNCHANGED <<config, entitlements, entByEmail, admins, bucket,
                 uploadGrants, answered,
                 panels>>
  /\ UNCHANGED payments

\* ------------------------------------------------ client: the admin panel
\* The users who can sign in to the panel.
PanelUsers == {t \in IdTokens : t.bearer /\ t.valid /\ t.email # Absent}

\* the panel opens for a signed-in user and loads config/admins into its
\* state (getDoc, then setAdmins(list))
OpenPanel(user) ==
  /\ user \in PanelUsers
  /\ panels' = WithDoc(panels, user.uid, AllowedEmails)
  /\ UNCHANGED <<config, entitlements, entByEmail, admins, settings, bucket,
                 uploadGrants, answered>>
  /\ UNCHANGED payments

\* isAdmin: email && admins.includes(email), on the list the panel holds
IsAdmin(user) ==
  /\ user.uid \in DOMAIN panels
  /\ user.email # Absent
  /\ user.email \in panels[user.uid]

\* claimAdmin, behind the button the panel shows while its list is empty
\* (!admins.length): setDoc(config/admins, { allowedEmails: [user.email] },
\* { merge: false }), then setAdmins([user.email])
ClaimAdmin(user) ==
  /\ user \in PanelUsers
  /\ user.uid \in DOMAIN panels
  /\ panels[user.uid] = {}
  /\ admins' = [allowedEmails |-> {user.email}]
  /\ panels' = WithDoc(panels, user.uid, {user.email})
  /\ UNCHANGED <<config, entitlements, entByEmail, settings, bucket,
                 uploadGrants, answered>>
  /\ UNCHANGED payments

\* approve: entitlements/{uid} and entitlements_by_email/{lower} are set with
\* granted: true, by a user the panel takes for an admin
Approve(user, uid, email) ==
  LET lower == ToLowerCase(email) IN
  /\ IsAdmin(user)
  /\ entitlements' =
       WithDoc(entitlements, uid,
               Merged(DocOrEmpty(entitlements, uid),
                      [email |-> lower, granted |-> TRUE]))
  /\ entByEmail' =
       WithDoc(entByEmail, lower,
               Merged(DocOrEmpty(entByEmail, lower),
                      [email |-> lower, granted |-> TRUE]))
  /\ UNCHANGED <<config, admins, settings, bucket, uploadGrants, answered,
                 panels>>
  /\ UNCHANGED payments

\* --------------------------------------------- serverless: api/download.js
\* settings.exists ? (settings.data().courseBlobUrl || '') : ''
CourseBlobUrl == Field(settings, "courseBlobUrl", Absent)

\* the download handler without its entitlement lookup
DownloadRunUnchecked(email) ==
  IF ToLowerCase(email) = Absent THEN Response(400, "Missing email", Absent)
  ELSE IF CourseBlobUrl = Absent
    THEN Response(404, "No course uploaded yet", Absent)
  ELSE Response(302, "redirect", CourseBlobUrl)

\* GET /api/download?email=...: the response; the key is the redirect's
\* Location.
DownloadRun(email) ==
  LET lower == ToLowerCase(email) IN
  IF lower = Absent THEN Response(400, "Missing email", Absent)
  ELSE IF lower \notin DOMAIN entByEmail
    THEN Response(403, "No entitlement for this email", Absent)
  ELSE IF CourseBlobUrl = Absent
    THEN Response(404, "No course uploaded yet", Absent)
  ELSE Response(302, "redirect", CourseBlobUrl)

Download(email) ==
  /\ answered' = answered \cup {[email |-> ToLowerCase(email),
                                 code |-> DownloadRun(email).code]}
  /\ UNCHANGED <<config, entitlements, entByEmail, admins, settings, bucket,
                 uploadGrants,
                 panels>>
  /\ UNCHANGED payments

\* ------------------------------- serverless: download keyed by the buyer id
DownloadUidRun(idToken) ==
  IF ~idToken.bearer THEN Response(401, "Missing token", Absent)
  ELSE IF ~idToken.valid THEN Response(500, "server_error", Absent)
  ELSE IF idToken.uid \notin DOMAIN entitlements
    THEN Response(403, "No entitlement", Absent)
  ELSE IF CourseBlobUrl = Absent
    THEN Response(404, "No course uploaded yet", Absent)
  ELSE Response(302, "redirect", CourseBlobUrl)

DownloadUid(idToken) ==
  /\ DownloadUidRun(idToken).code # 0
  /\ UNCHANGED vars

\* ------------------------------------------------------------ specification
\* credentials: the gateway app id and secret are configured;
\* webhookSecret: cashfree.webhook_secret, "" when it is not configured
\* (cfg.admin?.emails || "").split(",")...filter(Boolean): no admin emails
\* unless the deployment configures them
NoAdmins == {}

Configs ==
  [credentials : BOOLEAN, webhookSecret : {"", GatewaySecret},
   adminEmails : {NoAdmins}]

\* deployments whose payment side is configured, with and without admins
AdminConfigs ==
  [credentials : {TRUE}, webhookSecret : {GatewaySecret},
   adminEmails : {NoAdmins, {AdminEmail}}]

\* An entitlement the operator has revoked by hand (granted: false): the
\* handlers never write one, the store may hold one.
RevokedEmail == "c@d.com"
RevokedUid == <<"u1">>
Revoked(email) == [email |-> email, granted |-> FALSE]

\* nothing has been ordered, paid, uploaded or downloaded yet
InitRest ==
  /\ now = 0
  /\ gateway = <<>>
  /\ statusQueried = {}
  /\ orders = <<>>
  /\ tokens = <<>>
  /\ grantedFor = {}
  /\ redeemed = <<>>
  /\ inflight = EmptyBag
  /\ admins = <<>>
  /\ settings = <<>>
  /\ bucket = {}
  /\ uploadGrants = {}
  /\ answered = {}
  /\ panels = <<>>

Init ==
  /\ config \in Configs
  /\ entitlements = <<>>
  /\ entByEmail = <<>>
  /\ InitRest

\* the deployment that delivers by entitlement, at the start of a run
InitDelivery ==
  /\ config \in AdminConfigs
  /\ \E revoked \in BOOLEAN :
       /\ entitlements =
            IF revoked
              THEN WithDoc(<<>>, RevokedUid, Revoked(RevokedEmail))
              ELSE <<>>
       /\ entByEmail =
            IF revoked
              THEN WithDoc(<<>>, RevokedEmail, Revoked(RevokedEmail))
              ELSE <<>>
  /\ InitRest

EnvNext ==
  \/ Tick
  \/ \E o \in DOMAIN gateway : GatewayPay(o)

ExpressNext ==
  \/ \E email \in Emails \cup {Absent}, amount \in Amounts,
        rnd \in RandomDraws, fault \in CreateFaults :
       ExpressCreateOrder(email, amount, rnd, fault)
  \/ \E req \in WebhookRequests, fault \in WebhookFaults :
       ExpressWebhook(req, fault)
  \/ \E orderId \in DOMAIN gateway \cup {BogusOrderId, NoOrderId} :
       ExpressOrderStatus(orderId)
  \/ \E token \in 0..MaxTokens : ExpressDownloadBegin(token)
  \/ \E token \in DOMAIN tokens, signedUrl \in BOOLEAN, stored \in BOOLEAN :
       ExpressDownloadFinish(token, signedUrl, stored)

ServerlessFaults ==
  {"none", "gateway_throws", "gateway_not_ok", "store_fails"}

ServerlessNext ==
  \/ \E uid \in Uids \cup {NoUid}, email \in Emails \cup {Absent},
        amountINR \in Amounts, phone \in Phones, rnd \in RandomDraws,
        fault \in ServerlessFaults \ {"store_fails"} :
       CreateOrderJs(uid, email, amountINR, phone, rnd, fault)
  \/ \E uid \in Uids \cup {NoUid}, email \in Emails \cup {Absent},
        amountINR \in Amounts, fault \in ServerlessFaults \ {"store_fails"} :
       CreateOrderUid(uid, email, amountINR, fault)
  \/ \E req \in WebhookRequests, fault \in ServerlessFaults :
       CashfreeWebhook(req, fault)
  \/ \E req \in WebhookRequests \cup EmailedDeliveries,
        fault \in ServerlessFaults :
       CashfreeWebhookEmail(req, fault)
  \/ GatewayFormOrder

\* the admin panel of the client
PanelNext ==
  \/ \E user \in IdTokens : OpenPanel(user)
  \/ \E user \in IdTokens : ClaimAdmin(user)
  \/ \E user \in IdTokens, uid \in Uids, email \in Emails :
       Approve(user, uid, email)

\* the admin routes, the admin panel and the downloads by entitlement
DeliveryNext ==
  \/ \E idToken \in IdTokens, signedUrl \in BOOLEAN :
       ExpressUploadUrl(idToken, signedUrl)
  \/ ExpressPutObject
  \/ \E idToken \in IdTokens : BlobUpload(idToken)
  \/ BlobUploadCompleted
  \/ PanelNext
  \/ \E email \in Emails \cup {Absent} : Download(email)
  \/ \E idToken \in IdTokens : DownloadUid(idToken)

Next == EnvNext \/ ExpressNext \/ ServerlessNext \/ DeliveryNext

\* the whole system
Spec == Init /\ [][Next]_vars

\* the Express app alone, and the serverless functions alone
SpecExpress == Init /\ [][EnvNext \/ ExpressNext]_vars
SpecServerless == Init /\ [][EnvNext \/ ServerlessNext]_vars

\* everything that writes entitlements (the two webhooks and the admin
\* panel), with the orders of the create handler that names the buyer in the
\* order id and their payment
EntitlementNext ==
  \/ \E o \in DOMAIN gateway : GatewayPay(o)
  \/ \E uid \in Uids \cup {NoUid}, email \in Emails \cup {Absent},
        amountINR \in Amounts, fault \in ServerlessFaults \ {"store_fails"} :
       CreateOrderUid(uid, email, amountINR, fault)
  \/ \E req \in WebhookRequests, fault \in ServerlessFaults :
       CashfreeWebhook(req, fault)
  \/ \E req \in WebhookRequests \cup EmailedDeliveries,
        fault \in ServerlessFaults :
       CashfreeWebhookEmail(req, fault)
  \/ GatewayFormOrder
  \/ PanelNext

SpecEntitlements == Init /\ [][EntitlementNext]_vars

\* uploads and downloads by entitlement alone
SpecDelivery == InitDelivery /\ [][DeliveryNext]_vars

\* ------------------------------------------------------------------ claims

\* C1: in every reachable state, every DownloadToken, and every Entitlement a
\* webhook handler wrote on behalf of an order, belongs to an order that the
\* gateway itself holds as paid.
C1_ArtifactsOnlyForGatewayPaid ==
  /\ \A t \in DOMAIN tokens :
       /\ tokens[t].orderId \in DOMAIN gateway
       /\ gateway[tokens[t].orderId].status = "PAID"
  /\ \A o \in grantedFor : o \in DOMAIN gateway /\ gateway[o].status = "PAID"

\* C2: in every webhook handler, a delivery whose signature header is absent,
\* or is not the HMAC of its body under the webhook secret, changes no Order,
\* DownloadToken or Entitlement record.
C2_BadSignatureMutatesNothing ==
  \A req \in WebhookRequests :
    (req.sig = NoSignature \/ req.sig # Hmac(config.webhookSecret, req.body))
    => /\ \A fault \in WebhookFaults :
            /\ ExpressWebhookRun(req, fault).orders = orders
            /\ ExpressWebhookRun(req, fault).tokens = tokens
       /\ \A fault \in ServerlessFaults :
            /\ CashfreeWebhookRun(req, fault).entitlements = entitlements
            /\ CashfreeWebhookEmailRun(req, fault).entByEmail = entByEmail

\* C3: for every order id, however many confirmed paid signals were applied,
\* at most one DownloadToken exists for it, and an order that has one has
\* status paid.
C3_OneArtifactPerOrder ==
  \A o \in DOMAIN orders \cup {tokens[t].orderId : t \in DOMAIN tokens} :
    /\ Cardinality(TokensOf(o)) <= 1
    /\ TokensOf(o) # {} => o \in DOMAIN orders /\ orders[o].status = "paid"

\* C4: of the /download requests that run concurrently for one unused,
\* unexpired token, at most one obtains the download URL.
C4_AtMostOneRedemption ==
  \A t \in DOMAIN tokens : Redemptions(t) <= 1

\* C5: once a /download call for a token has succeeded, a /download call for
\* that token is answered 403, before expiresAt as well as after it, and the
\* used flag of a token never goes back from true to false.
C5_RedeemedTokenStaysForbidden ==
  /\ [](\A t \in DOMAIN tokens :
          Redemptions(t) > 0
          => ExpressDownloadCheck(t) = Response(403, "invalid token", t))
  /\ [][\A t \in DOMAIN tokens : tokens[t].used => tokens'[t].used]_vars

\* C5, its case: a token that was redeemed and whose expiresAt has not passed.
C5_RedeemedBeforeExpiry ==
  \E t \in DOMAIN tokens : Redemptions(t) > 0 /\ now <= tokens[t].expiresAt

\* C6: create called with a non-positive amount answers 400; no order is
\* registered at the gateway and no Order record is persisted.
C6_NonPositiveAmountRejected ==
  \A amount \in {a \in Amounts : a <= 0}, email \in Emails, rnd \in RandomDraws :
    /\ \A fault \in CreateFaults :
         LET run == ExpressCreateOrderRun(email, amount, rnd, fault) IN
         run.reply.code = 400 /\ run.gateway = gateway /\ run.orders = orders
    /\ \A uid \in Uids, fault \in ServerlessFaults \ {"store_fails"} :
         /\ \A phone \in Phones :
              LET run == CreateOrderJsRun(uid, email, amount, phone, rnd, fault)
              IN run.reply.code = 400 /\ run.gateway = gateway
         /\ LET run == CreateOrderUidRun(uid, email, amount, fault)
            IN run.reply.code = 400 /\ run.gateway = gateway

\* C7: an Order's status changes only by created -> paid: an Order record that
\* has status paid after a step existed before it with status created or
\* paid, and a paid order stays paid.
C7_OnlyCreatedToPaid ==
  [][\A o \in DOMAIN orders' :
       /\ orders'[o].status = "paid"
          => o \in DOMAIN orders /\ orders[o].status \in {"created", "paid"}
       /\ (o \in DOMAIN orders /\ orders[o].status = "paid")
          => orders'[o].status = "paid"]_vars

\* C8: a webhook handler that wrote an Order, DownloadToken or Entitlement for
\* a paid push had queried the gateway's order-status API for that order, and
\* the gateway reports the order as paid.
C8_WritesFollowStatusQuery ==
  \A o \in {tokens[t].orderId : t \in DOMAIN tokens}
           \cup {p \in DOMAIN orders : orders[p].status = "paid"}
           \cup grantedFor :
    o \in statusQueried /\ o \in DOMAIN gateway /\ gateway[o].status = "PAID"

\* C9: the webhook endpoint answers every POST delivery with HTTP 200,
\* whatever the signature check and the processing come to.
C9_WebhookAlwaysAnswers200 ==
  \A req \in WebhookRequests :
    /\ \A fault \in WebhookFaults :
         ExpressWebhookRun(req, fault).reply.code = 200
    /\ \A fault \in ServerlessFaults :
         /\ CashfreeWebhookRun(req, fault).reply.code = 200
         /\ CashfreeWebhookEmailRun(req, fault).reply.code = 200

\* C10: right after a create call has succeeded (its order is newly
\* registered at the gateway), getStatus for the returned order id answers
\* status created.
C10_CreateThenStatusCreated ==
  [][\A o \in DOMAIN gateway' \ DOMAIN gateway :
       ExpressOrderStatusReplies(o)' = {Response(200, "created", NoToken)}]_vars

\* C11: for a paid order, the download handle getStatus returns is the most
\* recently issued token of the order whose used flag is false, or none when
\* the order has no unused token.
C11_StatusReturnsNewestUnusedToken ==
  \A o \in DOMAIN orders :
    orders[o].status = "paid"
    => LET unused == {t \in TokensOf(o) : ~tokens[t].used} IN
       \A r \in ExpressOrderStatusReplies(o) :
         IF unused = {}
           THEN r.key = NoToken
           ELSE /\ r.key \in unused
                /\ \A u \in unused :
                     tokens[u].createdAt <= tokens[r.key].createdAt

\* C12: a create call whose gateway request throws or is answered with a
\* non-success status, or whose store write fails, is answered 5xx and
\* leaves the orders collection as it was: no Order record for the id it
\* generated comes to exist.
C12_FailedCreatePersistsNothing ==
  \A email \in Emails, amount \in Amounts \ {0}, rnd \in RandomDraws,
     fault \in CreateFaults :
    LET run == ExpressCreateOrderRun(email, amount, rnd, fault) IN
    (config.credentials /\ run.reply.code # 200)
    => /\ run.reply.code \in 500..599
       /\ run.orders = orders
       /\ ExpressOrderId(rnd) \notin DOMAIN orders
          => ExpressOrderId(rnd) \notin DOMAIN run.orders

\* C12, its case: a create call has registered its order at the gateway and
\* then failed at the store write; no Order record exists for that id.
C12_GatewayOrderWithoutRecord ==
  \E o \in DOMAIN gateway : o[1] = "le" /\ o \notin DOMAIN orders

\* C13: a /download call for a token whose expiresAt has passed is answered
\* 403 "expired token" even when the token was never used, and a token that
\* is expired, unused and in no call under way is never changed.
C13_ExpiredTokenFails ==
  /\ [](\A t \in DOMAIN tokens :
          (~tokens[t].used /\ now > tokens[t].expiresAt)
          => ExpressDownloadCheck(t) = Response(403, "expired token", t))
  /\ [][\A t \in DOMAIN tokens :
          (~tokens[t].used /\ now > tokens[t].expiresAt
           /\ ~BagIn(t, inflight))
          => tokens'[t] = tokens[t]]_vars

\* C13, its case: an unused token whose expiresAt has passed, with no
\* /download call for it under way.
C13_UnusedExpiredToken ==
  \E t \in DOMAIN tokens :
    ~tokens[t].used /\ now > tokens[t].expiresAt /\ ~BagIn(t, inflight)

\* C17: in every reachable state each token's orderId names an Order record
\* that was written by create (it carries the order's id, email and amount)
\* and now has status paid, and the token's email is that order's email.
C17_TokenBoundToCreatedOrder ==
  \A t \in DOMAIN tokens :
    LET o == tokens[t].orderId IN
    /\ o \in DOMAIN orders
    /\ orders[o].status = "paid"
    /\ {"orderId", "email", "amount"} \subseteq DOMAIN orders[o]
    /\ tokens[t].email = Field(orders[o], "email", Absent)
    /\ tokens[t].email # Absent

\* C14: GET /download?email=... for an email that has no Entitlement record
\* is answered 403, and the call changes no stored record.
C14_NoEntitlementForbidden ==
  /\ [](\A email \in Emails :
          ToLowerCase(email) \notin DOMAIN entByEmail
          => DownloadRun(email)
             = Response(403, "No entitlement for this email", Absent))
  /\ [][\A a \in answered' \ answered :
          (a.email # Absent /\ a.email \notin DOMAIN entByEmail)
          => /\ a.code = 403
             /\ UNCHANGED <<entitlements, entByEmail, settings, admins,
                            orders, tokens>>]_vars

\* C14, its case: a download was asked for an email without an Entitlement
\* record, and answered 403, while another email has one.
C14_RefusedWithoutEntitlement ==
  \E a \in answered :
    /\ a.code = 403
    /\ a.email \notin DOMAIN entByEmail
    /\ entByEmail # <<>>

\* C15: the download handlers issue a redirect only for an Entitlement
\* record with granted = true; a record with granted = false is refused
\* like an absent one.
C15_RedirectOnlyWhenGranted ==
  /\ \A email \in Emails :
       DownloadRun(email).code = 302
       => entByEmail[ToLowerCase(email)].granted
  /\ \A idToken \in IdTokens :
       DownloadUidRun(idToken).code = 302
       => entitlements[idToken.uid].granted

\* C16: while no deliverable has been uploaded, no download handler hands
\* out a download URL, and an entitled buyer is answered 404.
C16_NoDeliverableNotFound ==
  /\ \A t \in DOMAIN tokens : Redemptions(t) > 0 => ObjectPath \in bucket
  /\ \A t \in DOMAIN tokens, signedUrl \in BOOLEAN, stored \in BOOLEAN :
       (BagIn(t, inflight) /\ ObjectPath \notin bucket)
       => ExpressDownloadRun(t, signedUrl, stored).reply.code = 404
  /\ \A email \in Emails :
       (ToLowerCase(email) \in DOMAIN entByEmail /\ CourseBlobUrl = Absent)
       => DownloadRun(email).code = 404
  /\ \A idToken \in IdTokens :
       (idToken.bearer /\ idToken.valid
        /\ idToken.uid \in DOMAIN entitlements /\ CourseBlobUrl = Absent)
       => DownloadUidRun(idToken).code = 404

\* C18: create is answered 400, calls no gateway and persists no Order,
\* whenever the email is absent or has not the shape local@domain.tld, or
\* the phone number does not reduce to exactly 10 digits.
C18_MalformedInputRejected ==
  \A uid \in Uids, email \in Emails \cup {Absent, MalformedEmail},
     amountINR \in {a \in Amounts : a > 0}, phone \in Phones,
     rnd \in RandomDraws :
    (~ValidEmail(email) \/ ~ValidPhone(phone))
    => LET run == CreateOrderJsRun(uid, email, amountINR, phone, rnd, "none")
       IN run.reply.code = 400 /\ run.gateway = gateway

\* C19: once a webhook handler has written the entitlement for a paid order
\* that was created with buyer email E, GET /download with email E is not
\* refused with 403, and is redirected when a deliverable has been uploaded.
C19_PaidBuyerCanDownload ==
  \A o \in grantedFor :
    /\ DownloadRun(gateway[o].email).code # 403
    /\ CourseBlobUrl # Absent => DownloadRun(gateway[o].email).code = 302

\* C20: every signed write URL and every upload token was issued to a
\* request whose identity token verifies and whose email is in the admin
\* allow-list of that moment; while the allow-list is empty or missing, no
\* request is authorised.
C20_UploadOnlyForAdmins ==
  /\ \A g \in uploadGrants :
       /\ g.idToken.bearer /\ g.idToken.valid
       /\ g.idToken.email # Absent
       /\ g.idToken.email \in g.allowed
  /\ \A idToken \in IdTokens :
       /\ config.adminEmails = {}
          => /\ VerifyAdminRun(idToken) # Pending
             /\ \A signedUrl \in BOOLEAN :
                  ExpressUploadUrlRun(idToken, signedUrl).code # 200
       /\ AllowedEmails = {} => BlobUploadRun(idToken).code # 200

\* C20, its case: a write URL was issued by the Express app and an upload
\* token by the serverless function, while other requests were turned away.
C20_GrantsIssued ==
  /\ \E g \in uploadGrants : g.via = "upload-url"
  /\ \E g \in uploadGrants : g.via = "blob-upload"

\* C21: an entitlement that is granted stays: whatever the webhooks and the
\* admin panel do, a document of entitlements or entitlements_by_email that
\* has granted = true is still there, with granted = true, afterwards.
C21_GrantedStaysGranted ==
  [][/\ \A k \in DOMAIN entitlements :
          Field(entitlements[k], "granted", FALSE)
          => /\ k \in DOMAIN entitlements'
             /\ Field(entitlements'[k], "granted", FALSE)
     /\ \A k \in DOMAIN entByEmail :
          Field(entByEmail[k], "granted", FALSE)
          => /\ k \in DOMAIN entByEmail'
             /\ Field(entByEmail'[k], "granted", FALSE)]_vars

\* C21, its case: a buyer whose entitlement a webhook has granted, and whose
\* order is reported again, this time by the other webhook
C21_GrantedAndReportedAgain ==
  /\ \E k \in DOMAIN entByEmail : entByEmail[k].granted
  /\ \E k \in DOMAIN entitlements : entitlements[k].granted
  /\ \E o \in grantedFor :
       \E req \in WebhookRequests :
         /\ req.body.orderId = o
         /\ CashfreeWebhookEmailRun(req, "none").reply.code = 200

\* C22: when the gateway refuses the order, every create handler answers
\* with a 5xx status and a body that carries nothing of the gateway's.
C22_GatewayRefusalIsGeneric ==
  LET generic(code, body) == code >= 500 /\ body = NoDetail IN
  /\ \A email \in Emails, amount \in Amounts \ {0}, rnd \in RandomDraws :
       LET run == ExpressCreateOrderRun(email, amount, rnd, "gateway_not_ok")
       IN config.credentials => generic(run.reply.code, run.details)
  /\ \A uid \in Uids, email \in Emails, amountINR \in {a \in Amounts : a > 0},
        phone \in {p \in Phones : ValidPhone(p)}, rnd \in RandomDraws :
       LET run == CreateOrderJsRun(uid, email, amountINR, phone, rnd,
                                   "gateway_not_ok")
       IN config.credentials => generic(run.reply.code, run.detail)
  /\ \A uid \in Uids, email \in Emails, amountINR \in Amounts \ {0} :
       LET run == CreateOrderUidRun(uid, email, amountINR, "gateway_not_ok")
       IN generic(run.reply.code, run.detail)

\* C23: /payments/order-status writes nothing, whatever it answers, and for
\* an order id that is given it answers not_found exactly when the orders
\* collection has no document of that id.
C23_StatusReadOnlyAndNotFound ==
  /\ [](\A orderId \in DOMAIN gateway \cup DOMAIN orders \cup {BogusOrderId} :
          /\ ExpressOrderStatusReplies(orderId) # {}
          /\ \A r \in ExpressOrderStatusReplies(orderId) :
               /\ r.code = 200
               /\ r.msg = "not_found" <=> orderId \notin DOMAIN orders)
  /\ [][\A orderId \in DOMAIN gateway \cup {BogusOrderId, NoOrderId} :
          ExpressOrderStatus(orderId) => orders' = orders /\ tokens' = tokens]_vars

\* C23, its case: an order is on record as paid and its status is reported
\* with its token, while the status of an id without a record is asked too
C23_StatusOfRecordedOrder ==
  /\ \E o \in DOMAIN orders :
       /\ orders[o].status = "paid"
       /\ \E t \in TokensOf(o) :
            Response(200, "paid", t) \in ExpressOrderStatusReplies(o)
  /\ BogusOrderId \notin DOMAIN orders
  /\ Response(200, "not_found", NoToken) \in ExpressOrderStatusReplies(BogusOrderId)

\* C24: whenever the email-keyed webhook writes an entitlement, the gateway's
\* own status response for that order reports a customer email, and the one
\* document written is the one keyed by that email, lower-cased.
C24_KeyedByGatewayEmail ==
  \A req \in WebhookRequests \cup EmailedDeliveries :
    LET run == CashfreeWebhookEmailRun(req, "none")
        reported == gateway[req.body.orderId].email
    IN run.granted
       => /\ reported # Absent
          /\ ToLowerCase(reported) \in DOMAIN run.entByEmail
          /\ \A k \in DOMAIN run.entByEmail :
               k # ToLowerCase(reported)
               => k \in DOMAIN entByEmail /\ run.entByEmail[k] = entByEmail[k]

\* C25: the order id a create handler answers with is the same for any two
\* buyers who call it at the same clock value with the same random draw.
C25_OrderIdIndependentOfBuyer ==
  \A uid1 \in Uids, uid2 \in Uids, email1 \in Emails, email2 \in Emails,
     rnd \in RandomDraws :
    /\ ExpressCreateOrderRun(email1, 5, rnd, "none").reply.key
         = ExpressCreateOrderRun(email2, 5, rnd, "none").reply.key
    /\ CreateOrderJsRun(uid1, email1, 5, <<"9", "-", "9">>, rnd, "none").reply.key
         = CreateOrderJsRun(uid2, email2, 5, <<"9", "-", "9">>, rnd,
                            "none").reply.key
    /\ CreateOrderUidRun(uid1, email1, 5, "none").reply.key
         = CreateOrderUidRun(uid2, email2, 5, "none").reply.key

\* C26: between webhook calls, every order whose status is paid has a
\* download token bound to it.
C26_PaidOrderHasToken ==
  \A o \in DOMAIN orders : orders[o].status = "paid" => TokensOf(o) # {}

\* C27: a /download call that hands out no URL leaves the used flag of every
\* token as it was: the flag changes only in the step that answers 200 with
\* the URL for that token.
C27_FailedDownloadKeepsToken ==
  /\ [](\A t \in DOMAIN tokens, signedUrl \in BOOLEAN, stored \in BOOLEAN :
          ExpressDownloadRun(t, signedUrl, stored).reply.code # 200
          => ExpressDownloadRun(t, signedUrl, stored).doc = tokens[t])
  /\ [][\A t \in DOMAIN tokens :
          tokens'[t].used # tokens[t].used
          => /\ t \in DOMAIN redeemed'
             /\ redeemed'[t] = Redemptions(t) + 1]_vars

\* C27, its case: a call for an unused token is past its checks and is about
\* to fail at the signed URL, and the clock has meanwhile passed the expiry
C27_CallAboutToFail ==
  \E t \in DOMAIN tokens :
    /\ BagIn(t, inflight)
    /\ ~tokens[t].used
    /\ ExpressDownloadRun(t, FALSE, TRUE).reply.code = 500
    /\ ExpressDownloadCheck(t).msg = "expired token"

\* C28: the uid the uid-keyed webhook parses out of an order id is the uid
\* of the buyer the create handler generated that id for.
C28_ParsedUidIsBuyer ==
  \A uid \in Uids, email \in Emails, rnd \in RandomDraws :
    /\ ParsedUid(CreateOrderJsRun(uid, email, 5, <<"9", "-", "9">>, rnd,
                                  "none").reply.key) = uid
    /\ ParsedUid(CreateOrderUidRun(uid, email, 5, "none").reply.key) = uid

\* C29: once config/admins.allowedEmails is non-empty, no step changes it.
C29_FirstClaimantStays ==
  [][AllowedEmails # {} => admins' = admins]_vars

\* C30: with no webhook secret configured, the Express webhook answers every
\* delivery with 400 or 401 and writes neither orders nor downloadTokens.
C30_NoSecretRejectsAll ==
  config.webhookSecret = ""
  => \A req \in WebhookRequests, fault \in WebhookFaults :
       /\ ExpressWebhookRun(req, fault).reply.code \in {400, 401}
       /\ ExpressWebhookRun(req, fault).orders = orders
       /\ ExpressWebhookRun(req, fault).tokens = tokens

====
